---- MODULE Spec2Model ----
(***************************************************************************)
(* Model of the DataGen front end's HTTP client (lib/api): the generic     *)
(* request wrapper with its timeout timer and error normalisation, and the *)
(* multipart uploadFile helper.  The platform (fetch, timers, the server)  *)
(* is the environment: it delivers responses, fails the transport and      *)
(* fires timers.  On top of it, the authentication context (useAuth), the  *)
(* route guard (ProtectedRoute) of the application's routes, and the state *)
(* of the two pages behind the guard: GeneratorPage and AnalyzerPage with  *)
(* its FileUploader.                                                       *)
(***************************************************************************)
EXTENDS Integers, Sequences, FiniteSets, TLC

VARIABLES calls, auth, gen, ana

vars == <<calls, auth, gen, ana>>

\* ---------------------------------------------------------------- bounds
NumCalls == 1
CallIds == 1..NumCalls
\* the longest list of field definitions the form is taken to
MaxFieldDefs == 3
\* how many times handleGenerate is invoked
MaxGenerations == 3
GenIds == 1..MaxGenerations

\* ------------------------------------------------------- JavaScript values
\* Every value is a record of one shape: t is the type tag, s the string
\* payload (string contents, or the key of an object member) and kids the
\* elements of an array or the members of an object.
Val(t, s, kids) == [t |-> t, s |-> s, kids |-> kids]

Undefined == Val("undefined", "", <<>>)
Null == Val("null", "", <<>>)
Str(s) == Val("string", s, <<>>)
\* the number 0 and the boolean false: with null and "" the falsy JSON values
Zero == Val("number", "0", <<>>)
False == Val("boolean", "false", <<>>)
Arr(items) == Val("array", "", items)
Member(k, v) == Val("member", k, <<v>>)
Obj(members) == Val("object", "", members)
\* an object that refers to itself: JSON.stringify throws on it
Circular == Val("circular", "", <<>>)

EmptyObject == Obj(<<>>)

\* ------------------------------------------------------------- JSON text
\* A text is a sequence of lexical tokens; the empty sequence is the empty
\* string.  "ws" is white space, "<" a character that starts no JSON value,
\* a token "'x" is the string literal "x".
IsStrTok(tok) ==
    tok \in {"'", "'message", "'Invalid credentials", "'id",
             "'suggestedCharts", "'line", "'summary"}
StrOf(tok) == CASE tok = "'message" -> "message"
                [] tok = "'Invalid credentials" -> "Invalid credentials"
                [] tok = "'id" -> "id"
                [] tok = "'suggestedCharts" -> "suggestedCharts"
                [] tok = "'line" -> "line"
                [] tok = "'summary" -> "summary"
                [] OTHER -> ""
TokOf(s) == CASE s = "message" -> "'message"
              [] s = "Invalid credentials" -> "'Invalid credentials"
              [] s = "id" -> "'id"
              [] s = "suggestedCharts" -> "'suggestedCharts"
              [] s = "line" -> "'line"
              [] s = "summary" -> "'summary"
              [] OTHER -> "'"

UnexpectedEnd == "Unexpected end of JSON input"
UnexpectedToken == "Unexpected token in JSON"

ParseOk(v, next) == [ok |-> TRUE, val |-> v, next |-> next, msg |-> ""]
ParseFail(msg) == [ok |-> FALSE, val |-> Undefined, next |-> 0, msg |-> msg]

RECURSIVE SkipWs(_, _)
SkipWs(toks, i) ==
    IF i <= Len(toks) /\ toks[i] = "ws" THEN SkipWs(toks, i + 1) ELSE i

RECURSIVE ParseValue(_, _)
RECURSIVE ParseElems(_, _, _)
RECURSIVE ParseMembers(_, _, _)

\* the elements of an array after "[" (acc holds those read so far)
ParseElems(toks, i, acc) ==
    LET r == ParseValue(toks, i) IN
    IF ~r.ok THEN r
    ELSE LET j == SkipWs(toks, r.next) IN
         IF j > Len(toks) THEN ParseFail(UnexpectedEnd)
         ELSE IF toks[j] = "]" THEN ParseOk(Arr(Append(acc, r.val)), j + 1)
         ELSE IF toks[j] = "," THEN ParseElems(toks, j + 1, Append(acc, r.val))
         ELSE ParseFail(UnexpectedToken)

\* the members of an object after "{" (acc holds those read so far)
ParseMembers(toks, i, acc) ==
    LET k == SkipWs(toks, i) IN
    IF k > Len(toks) THEN ParseFail(UnexpectedEnd)
    ELSE IF ~IsStrTok(toks[k]) THEN ParseFail(UnexpectedToken)
    ELSE LET c == SkipWs(toks, k + 1) IN
         IF c > Len(toks) THEN ParseFail(UnexpectedEnd)
         ELSE IF toks[c] # ":" THEN ParseFail(UnexpectedToken)
         ELSE LET r == ParseValue(toks, c + 1) IN
              IF ~r.ok THEN r
              ELSE LET j == SkipWs(toks, r.next)
                       m == Append(acc, Member(StrOf(toks[k]), r.val)) IN
                   IF j > Len(toks) THEN ParseFail(UnexpectedEnd)
                   ELSE IF toks[j] = "}" THEN ParseOk(Obj(m), j + 1)
                   ELSE IF toks[j] = "," THEN ParseMembers(toks, j + 1, m)
                   ELSE ParseFail(UnexpectedToken)

ParseValue(toks, i0) ==
    LET i == SkipWs(toks, i0) IN
    IF i > Len(toks) THEN ParseFail(UnexpectedEnd)
    ELSE IF toks[i] = "null" THEN ParseOk(Null, i + 1)
    ELSE IF toks[i] = "0" THEN ParseOk(Zero, i + 1)
    ELSE IF toks[i] = "false" THEN ParseOk(False, i + 1)
    ELSE IF IsStrTok(toks[i]) THEN ParseOk(Str(StrOf(toks[i])), i + 1)
    ELSE IF toks[i] = "[" THEN
         LET j == SkipWs(toks, i + 1) IN
         IF j > Len(toks) THEN ParseFail(UnexpectedEnd)
         ELSE IF toks[j] = "]" THEN ParseOk(Arr(<<>>), j + 1)
         ELSE ParseElems(toks, j, <<>>)
    ELSE IF toks[i] = "{" THEN
         LET j == SkipWs(toks, i + 1) IN
         IF j > Len(toks) THEN ParseFail(UnexpectedEnd)
         ELSE IF toks[j] = "}" THEN ParseOk(Obj(<<>>), j + 1)
         ELSE ParseMembers(toks, j, <<>>)
    ELSE ParseFail(UnexpectedToken)

\* JSON.parse(text): the value, or the SyntaxError's message
JSONParse(toks) ==
    LET r == ParseValue(toks, 1) IN
    IF ~r.ok THEN r
    ELSE IF SkipWs(toks, r.next) <= Len(toks) THEN ParseFail(UnexpectedToken)
    ELSE r

\* JSON.stringify(value): the text, or the TypeError's message
CircularMessage == "Converting circular structure to JSON"

StringifyOk(toks) == [ok |-> TRUE, toks |-> toks, msg |-> ""]
StringifyFail(msg) == [ok |-> FALSE, toks |-> <<>>, msg |-> msg]

RECURSIVE Stringify(_)
RECURSIVE StringifyKids(_, _)

\* the elements or members kids[i..], separated by commas
StringifyKids(kids, i) ==
    IF i > Len(kids) THEN StringifyOk(<<>>)
    ELSE LET head == Stringify(kids[i])
             rest == StringifyKids(kids, i + 1) IN
         IF ~head.ok THEN head
         ELSE IF ~rest.ok THEN rest
         ELSE IF i < Len(kids) THEN StringifyOk(head.toks \o <<",">> \o rest.toks)
         ELSE StringifyOk(head.toks)

Stringify(v) ==
    CASE v.t = "null" -> StringifyOk(<<"null">>)
      [] v.t \in {"number", "boolean"} -> StringifyOk(<<v.s>>)
      [] v.t = "string" -> StringifyOk(<<TokOf(v.s)>>)
      [] v.t = "member" ->
           LET r == Stringify(v.kids[1]) IN
           IF r.ok THEN StringifyOk(<<TokOf(v.s), ":">> \o r.toks) ELSE r
      [] v.t = "array" ->
           LET r == StringifyKids(v.kids, 1) IN
           IF r.ok THEN StringifyOk(<<"[">> \o r.toks \o <<"]">>) ELSE r
      [] v.t = "object" ->
           LET r == StringifyKids(v.kids, 1) IN
           IF r.ok THEN StringifyOk(<<"{">> \o r.toks \o <<"}">>) ELSE r
      [] OTHER -> StringifyFail(CircularMessage)

\* JavaScript truthiness of a value (the test of "body ? ... : undefined")
Truthy(v) ==
    /\ v.t \notin {"undefined", "null"}
    /\ ~(v.t = "string" /\ v.s = "")
    /\ ~(v.t = "number" /\ v.s = "0")
    /\ ~(v.t = "boolean" /\ v.s = "false")

\* ------------------------------------------------------- thrown values
\* cls is "ApiError" for the client's own error class, "Error" for any other
\* Error instance (name tells which) and "NonError" for a thrown value that
\* is no Error.  status, statusText and data are ApiError's fields.
Thrown(cls, name, message, status, statusText, data) ==
    [cls |-> cls, name |-> name, message |-> message,
     status |-> status, statusText |-> statusText, data |-> data]

\* no error (the value of a call's error field while it has not rejected)
NoError == Thrown("none", "", "", -1, "", Undefined)

\* new ApiError(status, statusText, data)
ApiError(status, statusText, data) ==
    Thrown("ApiError", "ApiError",
           "API Error: " \o ToString(status) \o " " \o statusText,
           status, statusText, data)

PlatformError(name, message) == Thrown("Error", name, message, -1, "", Undefined)

\* what the platform throws.  The AbortError is a DOMException, which in a
\* browser is an instance of Error; the transport may raise one although the
\* call's own timer has not fired (a request the browser cancels).
NetworkError == PlatformError("TypeError", "Failed to fetch")
AbortError == PlatformError("AbortError", "The operation was aborted.")
SyntaxError(msg) == PlatformError("SyntaxError", msg)
StringifyError(msg) == PlatformError("TypeError", msg)
NonError == Thrown("NonError", "", "", -1, "", Undefined)

\* variants of the catch block with a slip in one branch
\*   an Error that is no AbortError is thrown on as it came
CatchHandler_Rethrow(error) ==
    IF error.cls = "ApiError" THEN error
    ELSE IF error.cls = "Error" THEN
         IF error.name = "AbortError" THEN ApiError(408, "Request Timeout", Undefined)
         ELSE error
    ELSE ApiError(0, "Unknown Error", Undefined)
\*   the AbortError is not told apart from the other Errors
CatchHandler_NoTimeout(error) ==
    IF error.cls = "ApiError" THEN error
    ELSE IF error.cls = "Error" THEN ApiError(0, error.message, Undefined)
    ELSE ApiError(0, "Unknown Error", Undefined)
\*   the message of the Error is dropped
CatchHandler_NoMessage(error) ==
    IF error.cls = "ApiError" THEN error
    ELSE IF error.cls = "Error" /\ error.name = "AbortError"
         THEN ApiError(408, "Request Timeout", Undefined)
    ELSE ApiError(0, "Unknown Error", Undefined)

\* the catch block of request: every thrown value becomes an ApiError
CatchHandler(error) ==
    IF error.cls = "ApiError" THEN error
    ELSE IF error.cls = "Error" THEN
         IF error.name = "AbortError" THEN ApiError(408, "Request Timeout", Undefined)
         ELSE ApiError(0, error.message, Undefined)
    ELSE ApiError(0, "Unknown Error", Undefined)

\* clearTimeout(timeoutId): an armed timer is disarmed, a timer that has fired
\* or was cleared stays as it is
ClearTimeout(timer) == IF timer = "armed" THEN "cleared" ELSE timer

\* line 60: the timer after the response has arrived
TimerAfterResponse(timer) == ClearTimeout(timer)
\* the catch block without its clearTimeout
TimerInCatch_Kept(timer) == timer
\* line 74: the timer on entry to the catch block
TimerInCatch(timer) == ClearTimeout(timer)

\* ------------------------------------------------------- server responses
Response(status, statusText, text) ==
    [status |-> status, statusText |-> statusText, text |-> text]

NoResponse == Response(-1, "", <<>>)

\* response.ok
Ok(response) == response.status >= 200 /\ response.status <= 299

\* the status lines and bodies the server is taken to answer with
StatusLines ==
    { <<200, "OK">>, <<204, "No Content">>, <<401, "Unauthorized">>,
      <<408, "Request Timeout">>, <<408, "">> }

BodyTexts ==
    { <<>>, <<"[", "]">>, <<"ws">>, <<"<">>, <<"null">>,
      <<"{", "'message", ":", "'Invalid credentials", "}">>,
      <<"ws", "{", "'id", ":", "[", "null", ",", "'id", "]", "}", "ws">> }

Responses ==
    { Response(sl[1], sl[2], text) : sl \in StatusLines, text \in BodyTexts }

\* the outcomes of reading a response body: the text arrives, or the read
\* fails with a thrown value
BodyReads == { "text", "network", "abort" }

\* the detail with a handler that yields undefined: .catch(() => undefined)
ErrorData_Undefined(response, read) ==
    IF read # "text" THEN Undefined
    ELSE LET r == JSONParse(response.text) IN IF r.ok THEN r.val ELSE Undefined

\* response.json().catch(() => null): the detail of an error response
ErrorData(response, read) ==
    IF read # "text" THEN Null
    ELSE LET r == JSONParse(response.text) IN IF r.ok THEN r.val ELSE Null

\* the error built without its third argument
HttpError_NoDetail(response, read) ==
    ApiError(response.status, response.statusText, Undefined)

\* lines 63-66 and 130-133: the error of a response that is not ok
HttpError(response, read) ==
    ApiError(response.status, response.statusText, ErrorData(response, read))

Returned(value) == [thrown |-> FALSE, value |-> value, error |-> NoError]
Threw(error) == [thrown |-> TRUE, value |-> Undefined, error |-> error]

ReadFailure(read) == IF read = "abort" THEN AbortError ELSE NetworkError

\* variants of lines 68-72
\*   without the test for an empty text
SuccessBody_NoEmptyCheck(response, read) ==
    IF read # "text" THEN Threw(ReadFailure(read))
    ELSE LET r == JSONParse(response.text) IN
         IF r.ok THEN Returned(r.val) ELSE Threw(SyntaxError(r.msg))
\*   with the parse failure swallowed
SuccessBody_Swallow(response, read) ==
    IF read # "text" THEN Threw(ReadFailure(read))
    ELSE IF response.text = <<>> THEN Returned(EmptyObject)
    ELSE LET r == JSONParse(response.text) IN
         IF r.ok THEN Returned(r.val) ELSE Returned(EmptyObject)

\* lines 68-72: the value of a 2xx response on the generic path
SuccessBody(response, read) ==
    IF read # "text" THEN Threw(ReadFailure(read))
    ELSE IF response.text = <<>> THEN Returned(EmptyObject)
    ELSE LET r == JSONParse(response.text) IN
         IF r.ok THEN Returned(r.val) ELSE Threw(SyntaxError(r.msg))

\* line 135: return response.json() on the upload path
UploadBody(response, read) ==
    IF read # "text" THEN Threw(ReadFailure(read))
    ELSE LET r == JSONParse(response.text) IN
         IF r.ok THEN Returned(r.val) ELSE Threw(SyntaxError(r.msg))

\* ------------------------------------------------ options and headers
\* The headers option as a caller passes it: form is "none" (no headers
\* option), "record" (a plain object) or "Headers" (an instance of Headers);
\* entries are its <<name, value>> pairs.
HeadersInit(form, entries) == [form |-> form, entries |-> entries]
NoHeaders == HeadersInit("none", <<>>)

\* the own enumerable properties of the headers option: what the spread
\* ...init.headers copies (an instance of Headers has none)
OwnProps(h) == IF h.form = "record" THEN h.entries ELSE <<>>

\* obj with the property e set: a property of the same name, compared with
\* its case, is replaced in place
SetProp(obj, e) ==
    IF \E i \in 1..Len(obj) : obj[i][1] = e[1]
    THEN [i \in 1..Len(obj) |-> IF obj[i][1] = e[1] THEN e ELSE obj[i]]
    ELSE Append(obj, e)

RECURSIVE Assign(_, _)
\* obj with the properties of entries set in order
Assign(obj, entries) ==
    IF entries = <<>> THEN obj
    ELSE Assign(SetProp(obj, Head(entries)), Tail(entries))

DefaultHeaders == << <<"Content-Type", "application/json">> >>

\* lines 53-56: { 'Content-Type': 'application/json', ...init.headers }
MergedHeaders(h) == Assign(DefaultHeaders, OwnProps(h))

\* fetch reads header names without their case
Lower(name) ==
    CASE name = "Content-Type" -> "content-type"
      [] name = "Authorization" -> "authorization"
      [] OTHER -> name

\* Headers.append: a value of a name already there is joined with ", "
AppendHeader(hs, e) ==
    IF \E i \in 1..Len(hs) : hs[i][1] = Lower(e[1])
    THEN [i \in 1..Len(hs) |->
            IF hs[i][1] = Lower(e[1])
            THEN <<hs[i][1], hs[i][2] \o ", " \o e[2]>> ELSE hs[i]]
    ELSE Append(hs, <<Lower(e[1]), e[2]>>)

RECURSIVE WireHeadersFrom(_, _)
WireHeadersFrom(hs, entries) ==
    IF entries = <<>> THEN hs
    ELSE WireHeadersFrom(AppendHeader(hs, Head(entries)), Tail(entries))

\* the headers fetch sends for a headers object
WireHeaders(obj) == WireHeadersFrom(<<>>, obj)

\* the value sent for a header name, "" when it is not sent
HeaderValue(hs, name) ==
    IF \E i \in 1..Len(hs) : hs[i][1] = name
    THEN hs[CHOOSE i \in 1..Len(hs) : hs[i][1] = name][2]
    ELSE ""

\* the options of request as a caller passes them; "" , Undefined, NoHeaders
\* and <<>> stand for an option that is not given
Options(method, body, headers, credentials, signal, timeout) ==
    [method |-> method, body |-> body, headers |-> headers,
     credentials |-> credentials, signal |-> signal, timeout |-> timeout]
NoOptions == Options("", Undefined, NoHeaders, "", "", <<>>)

\* the helper called and its arguments; NoArg before the call
Arg(verb, body, options) == [verb |-> verb, body |-> body, options |-> options]
NoArg == Arg("", Undefined, NoOptions)

\* the verb helpers of api: the options each hands to request
Verbs == {"GET", "POST", "PUT", "PATCH", "DELETE"}
TakesBody(verb) == verb \in {"POST", "PUT", "PATCH"}

\* a helper that spreads the options after the method: { method, ...options }
ApiOptions_OptionsWin(verb, body, options) ==
    IF options.method # "" THEN options
    ELSE IF TakesBody(verb) THEN [options EXCEPT !.method = verb, !.body = body]
    ELSE [options EXCEPT !.method = verb]

\* lines 93-106: { ...options, method: verb } and, for post, put and patch,
\* { ...options, method: verb, body }
ApiOptions(verb, body, options) ==
    IF TakesBody(verb) THEN [options EXCEPT !.method = verb, !.body = body]
    ELSE [options EXCEPT !.method = verb]

\* line 42: timeout = 30000 when the option is not given
DefaultTimeout == 30000
TimeoutOf(options) ==
    IF options.timeout = <<>> THEN <<DefaultTimeout>> ELSE options.timeout

\* a serialization whose failure is swallowed: the body is left out
SentBody_Swallow(body) ==
    IF Truthy(body) /\ Stringify(body).ok
    THEN [given |-> TRUE, json |-> Stringify(body)]
    ELSE [given |-> FALSE, json |-> StringifyOk(<<>>)]

\* line 57: body ? JSON.stringify(body) : undefined
SentBody(body) ==
    IF Truthy(body) THEN [given |-> TRUE, json |-> Stringify(body)]
    ELSE [given |-> FALSE, json |-> StringifyOk(<<>>)]

\* fetch options with the caller's options spread last
FetchInit_CallerWins(options) ==
    [method |-> options.method,
     signal |-> IF options.signal # "" THEN options.signal ELSE "controller",
     credentials |-> IF options.credentials # "" THEN options.credentials
                     ELSE "include",
     headers |-> MergedHeaders(options.headers)]

\* lines 50-56: { ...init, signal, credentials: 'include', headers }
FetchInit(options) ==
    [method |-> options.method,
     signal |-> "controller",
     credentials |-> "include",
     headers |-> MergedHeaders(options.headers)]

\* FormData: set replaces the parts of the same name
FormDataSet(parts, e) ==
    IF \E i \in 1..Len(parts) : parts[i][1] = e[1]
    THEN [i \in 1..Len(parts) |-> IF parts[i][1] = e[1] THEN e ELSE parts[i]]
    ELSE Append(parts, e)

RECURSIVE FormData_Set(_, _)
\* a payload built with formData.set
FormData_Set(parts, entries) ==
    IF entries = <<>> THEN parts
    ELSE FormData_Set(FormDataSet(parts, Head(entries)), Tail(entries))

\* lines 115-122: formData.append for the file and for every entry of
\* additionalData (parts holds the parts appended so far)
FormData(parts, entries) == parts \o entries

\* the file handed to uploadFile
TheFile == "FILE"

\* ------------------------------------------------------------ the calls
\* One record per call of the client.
\*   kind     "none" (not started), "request" or "upload"
\*   pc       "idle", "fetching" (awaiting fetch), "headers" (the response
\*            has arrived, its body is being read), "resolved", "rejected"
\*   timer    "none", "armed", "cleared" or "fired" (timeoutId)
\*   fetched  fetch has been called
\*   arg      the helper called and its arguments (history)
\*   options  the options request received (history)
\*   extra    the additionalData uploadFile received (history)
\*   timeout  the delay the timer was armed with
\*   method, credentials, signal, headers, hasBody, sentBody, parts
\*            the options handed to fetch: headers is the headers object,
\*            sentBody the JSON text, parts the multipart payload
\*   net      "none", "inflight", "delivered", "failed" or "discarded": what
\*            became of the exchange with the server
\*   response the response fetch resolved with
\*   read     how the read of the response body ended ("none" before it)
\*   value, error   what the caller received
\*   origin   where the failure came from (history, for stating properties)
Idle ==
    [kind |-> "none", pc |-> "idle", timer |-> "none", fetched |-> FALSE,
     arg |-> NoArg, options |-> NoOptions, extra |-> <<>>, timeout |-> <<>>,
     method |-> "", credentials |-> "", signal |-> "", headers |-> <<>>,
     hasBody |-> FALSE, sentBody |-> <<>>, parts |-> <<>>, net |-> "none",
     response |-> NoResponse, read |-> "none", value |-> Undefined, error |-> NoError,
     origin |-> "none"]

Reject(call, error, origin) ==
    [call EXCEPT !.pc = "rejected", !.error = error, !.origin = origin]

Resolve(call, value) ==
    [call EXCEPT !.pc = "resolved", !.value = value]

\* the catch block as a whole: clear the timer, reject with the ApiError
Caught(call, error, origin) ==
    Reject([call EXCEPT !.timer = TimerInCatch(call.timer)],
           CatchHandler(error), origin)

\* the values callers pass as a body
Bodies ==
    { Undefined, Circular,
      Obj(<<Member("message", Str("id")), Member("id", Arr(<<Null>>))>>) }

\* request(endpoint, options), up to the await of fetch: arm the timer, build
\* the fetch options (JSON.stringify may throw), call fetch
Request(call, options) ==
    LET armed == [call EXCEPT !.kind = "request", !.timer = "armed",
                              !.options = options,
                              !.timeout = TimeoutOf(options)]
        body == SentBody(options.body)
        init == FetchInit(options) IN
    IF ~body.json.ok
    THEN Caught(armed, StringifyError(body.json.msg), "serialize")
    ELSE [armed EXCEPT !.pc = "fetching", !.fetched = TRUE,
                       !.method = init.method,
                       !.credentials = init.credentials,
                       !.signal = init.signal,
                       !.headers = init.headers,
                       !.hasBody = body.given,
                       !.sentBody = body.json.toks,
                       !.net = "inflight"]

\* a helper of api, called: the call up to its await of fetch
Invoke(call, verb, body, options) ==
    Request([call EXCEPT !.arg = Arg(verb, body, options)],
            ApiOptions(verb, body, options))

\* api.get, api.post, api.put, api.patch, api.delete
ApiCall(c, verb, body, options) ==
    /\ calls[c].pc = "idle"
    /\ body = Undefined \/ TakesBody(verb)
    /\ calls' = [calls EXCEPT ![c] = Invoke(@, verb, body, options)]
    /\ UNCHANGED <<auth, gen, ana>>

\* lines 115-128: the form data, and fetch called
Upload(call, additionalData) ==
    [call EXCEPT !.kind = "upload", !.pc = "fetching",
                 !.fetched = TRUE, !.method = "POST",
                 !.credentials = "include",
                 !.arg = Arg("upload", Undefined, NoOptions),
                 !.extra = additionalData,
                 !.parts = FormData(<< <<"file", TheFile>> >>, additionalData),
                 !.hasBody = TRUE, !.net = "inflight"]

\* an upload with the timer and the signal of the generic path
UploadFile_WithTimeout(c, additionalData) ==
    /\ calls[c].pc = "idle"
    /\ calls' = [calls EXCEPT
          ![c] = [@ EXCEPT !.kind = "upload", !.pc = "fetching",
                           !.fetched = TRUE, !.method = "POST",
                           !.credentials = "include",
                           !.timer = "armed", !.signal = "controller",
                           !.arg = Arg("upload", Undefined, NoOptions),
                           !.extra = additionalData,
                           !.parts = FormData(<< <<"file", TheFile>> >>,
                                              additionalData),
                           !.hasBody = TRUE, !.net = "inflight"]]
    /\ UNCHANGED <<auth, gen, ana>>

\* uploadFile(endpoint, file, additionalData), up to the await of fetch
UploadFile(c, additionalData) ==
    /\ calls[c].pc = "idle"
    /\ calls' = [calls EXCEPT ![c] = Upload(@, additionalData)]
    /\ UNCHANGED <<auth, gen, ana>>

\* one controller shared by all calls (created outside request)
Controlled_Shared(c) == DOMAIN calls

\* line 45: request creates a controller of its own, so the timer of call c
\* aborts the fetch of call c and no other
Controlled(c) == {c}

\* setTimeout's callback runs: controller.abort() rejects the pending fetch
\* that was given the controller's signal with an AbortError, which the
\* catch block receives
TimerFires(c) ==
    /\ calls[c].timer = "armed"
    /\ calls' = [d \in DOMAIN calls |->
          LET call == IF d = c THEN [calls[d] EXCEPT !.timer = "fired"]
                      ELSE calls[d] IN
          IF d \in Controlled(c) /\ call.signal = "controller"
                                 /\ call.pc = "fetching"
          THEN IF call.kind = "request" THEN Caught(call, AbortError, "timeout")
               ELSE Reject(call, AbortError, "timeout")
          ELSE call]
    /\ UNCHANGED <<auth, gen, ana>>

\* what a failing transport rejects fetch with
TransportFailures == { "network", "abort", "nonerror" }
TransportError(f) ==
    CASE f = "network" -> NetworkError
      [] f = "abort" -> AbortError
      [] OTHER -> NonError

\* fetch rejects although the timer has not fired
FetchFails(c, f) ==
    /\ calls[c].pc = "fetching"
    /\ calls[c].net = "inflight"
    /\ LET failed == [calls[c] EXCEPT !.net = "failed"] IN
       calls' = [calls EXCEPT
          ![c] = IF failed.kind = "request"
                 THEN Caught(failed, TransportError(f), f)
                 ELSE Reject(failed, TransportError(f), f)]
    /\ UNCHANGED <<auth, gen, ana>>

\* fetch resolves with a response; request clears its timer (line 60)
ResponseArrives(c, r) ==
    /\ calls[c].pc = "fetching"
    /\ calls[c].net = "inflight"
    /\ calls' = [calls EXCEPT
          ![c] = [@ EXCEPT !.pc = "headers", !.net = "delivered",
                           !.response = r,
                           !.timer = IF @ = "none" THEN "none"
                                     ELSE TimerAfterResponse(@)]]
    /\ UNCHANGED <<auth, gen, ana>>

\* the server answers a call whose fetch was aborted: the platform drops the
\* response, the promise of fetch is settled already
LateResponse(c, r) ==
    /\ calls[c].pc \in {"resolved", "rejected"}
    /\ calls[c].net = "inflight"
    /\ calls' = [calls EXCEPT ![c] = [@ EXCEPT !.net = "discarded"]]
    /\ UNCHANGED <<auth, gen, ana>>

\* whether the failure of a body comes from reading it or from parsing it
BodyOrigin(read) ==
    IF read = "text" THEN "parse" ELSE IF read = "abort" THEN "bodyabort"
    ELSE "bodyread"

\* request after the response: lines 62-72, and the catch block
RequestBody(call, read) ==
    IF ~Ok(call.response)
    THEN Caught(call, HttpError(call.response, read), "http")
    ELSE LET b == SuccessBody(call.response, read) IN
         IF b.thrown THEN Caught(call, b.error, BodyOrigin(read))
         ELSE Resolve(call, b.value)

\* uploadFile after the response: lines 130-135
UploadFileBody(call, read) ==
    IF ~Ok(call.response)
    THEN Reject(call, HttpError(call.response, read), "http")
    ELSE LET b == UploadBody(call.response, read) IN
         IF b.thrown THEN Reject(call, b.error, BodyOrigin(read))
         ELSE Resolve(call, b.value)

\* the read of the response body ends
BodyComplete(c, read) ==
    /\ calls[c].pc = "headers"
    /\ calls' = [calls EXCEPT
          ![c] = IF @.kind = "request"
                 THEN RequestBody([@ EXCEPT !.read = read], read)
                 ELSE UploadFileBody([@ EXCEPT !.read = read], read)]
    /\ UNCHANGED <<auth, gen, ana>>

\* ------------------------------------------------ authentication context
\* App.tsx, lines 45-48 and 50-59; "/missing" stands for every other path
PublicRoutes == { "/", "/login", "/signup", "/error" }
ProtectedRoutes == { "/dashboard", "/generator", "/analyzer" }
Paths == PublicRoutes \cup ProtectedRoutes \cup { "/missing" }

\* a location of the router: its pathname and the pathname of state.from
\* ("" when the location carries no state)
Location(pathname, from) == [pathname |-> pathname, from |-> from]

\* the guard without its test of isLoading
ProtectedRoute_IgnoresLoading(isLoading, isAuthenticated) ==
    IF ~isAuthenticated THEN "navigate" ELSE "children"

\* ProtectedRoute: what it returns
ProtectedRoute(isLoading, isAuthenticated) ==
    IF isLoading THEN "skeleton"
    ELSE IF ~isAuthenticated THEN "navigate"
    ELSE "children"

\* isAuthenticated: !!user
IsAuthenticated(user) == Truthy(user)

\* the element the routes render at the current location
RouteElement(a) ==
    IF a.location.pathname \in ProtectedRoutes
    THEN ProtectedRoute(a.isLoading, IsAuthenticated(a.user))
    ELSE IF a.location.pathname \in PublicRoutes THEN "page"
    ELSE "notfound"

\* the render that follows a change of the context or of the location
Render(a) == [a EXCEPT !.screen = RouteElement(a)]

\* the provider once mounted at a path: the first render, and the effect
\* that starts checkAuth.
\*   pending  the operations of the context that are at their await
\*   thrown   what the operation that finished last threw to its caller
\*   logged   the last error written to the console
Mounted(path) ==
    Render([user |-> Null, isLoading |-> TRUE, error |-> Null,
            location |-> Location(path, ""), screen |-> "",
            pending |-> {"checkAuth"}, thrown |-> NoError,
            logged |-> NoError])

\* the user object of a session
TheUser == Obj(<<Member("id", Str("id"))>>)

\* the provider after a checkAuth that found a session, at a path
SignedIn(path) ==
    Render([user |-> TheUser, isLoading |-> FALSE, error |-> Null,
            location |-> Location(path, ""), screen |-> "",
            pending |-> {}, thrown |-> NoError, logged |-> NoError])

\* how the calls of the context settle: api.get and api.post against the
\* answers below, or with a failing transport
AuthResponses ==
    { Response(200, "OK", <<"{", "'id", ":", "'id", "}">>),
      Response(200, "OK", <<"null">>),
      Response(200, "OK", <<"'">>),
      Response(204, "No Content", <<>>),
      Response(200, "OK", <<"<">>),
      Response(401, "Unauthorized",
               <<"{", "'message", ":", "'Invalid credentials", "}">>),
      Response(401, "Unauthorized", <<"{", "'message", ":", "'", "}">>),
      Response(401, "Unauthorized", <<>>) }

Settlement(call) ==
    IF call.pc = "resolved" THEN Returned(call.value) ELSE Threw(call.error)

AuthOutcomes ==
    { Settlement(RequestBody([Idle EXCEPT !.response = r], "text")) :
          r \in AuthResponses }
    \cup { Settlement(Caught(Idle, TransportError(f), f)) :
               f \in {"network", "abort"} }

\* value?.name: the property of an object, undefined for every other value
Property(v, name) ==
    IF v.t = "object" /\ \E i \in DOMAIN v.kids : v.kids[i].s = name
    THEN LET i == CHOOSE j \in DOMAIN v.kids :
                     /\ v.kids[j].s = name
                     /\ \A k \in DOMAIN v.kids : v.kids[k].s = name => k <= j
         IN v.kids[i].kids[1]
    ELSE Undefined

\* the message without a look at the detail
FailureMessage_AlwaysFallback(err, fallback) ==
    IF err.cls = "ApiError" THEN Str(fallback)
    ELSE Str("An unexpected error occurred")

\* the message login and signup keep of a failure
FailureMessage(err, fallback) ==
    IF err.cls = "ApiError"
    THEN LET m == Property(err.data, "message") IN
         IF Truthy(m) THEN m ELSE Str(fallback)
    ELSE Str("An unexpected error occurred")

\* ------------------------------------------------------ the pages' state
\* a field definition of the form tab (required is true for every field)
Field(id, name, type) == [id |-> id, name |-> name, type |-> type]

\* GeneratorPage as mounted: the initial values of its useState calls.
\*   awaiting  the invocations of handleGenerate that are at their await
\*   started   how many invocations there have been; dataFrom the one whose
\*             result generatedData is (history, for stating properties)
\*   toast     the title of the last toast
GeneratorPage ==
    [activeTab |-> "form", rulesJson |-> <<>>,
     fields |-> << Field("1", "", "string") >>,
     isGenerating |-> FALSE, generatedData |-> Null, error |-> Null,
     isEditModalOpen |-> FALSE, isSavePromptOpen |-> FALSE, toast |-> "",
     awaiting |-> {}, started |-> 0, dataFrom |-> 0]

\* a File object: its name, the extension of the name and its size in MB
File(name, ext, size) == Val("file", name, <<ext, size>>)

\* AnalyzerPage as mounted, with the state of its FileUploader
\* (selectedFile, uploaderError).
\*   awaiting  handleAnalyze is at its await; uploaded the file it handed to
\*             uploadFile (history)
AnalyzerPage ==
    [file |-> Null, manualData |-> "", isAnalyzing |-> FALSE,
     result |-> Null, selectedChart |-> Str("bar"), error |-> Null,
     isSavePromptOpen |-> FALSE, toast |-> "",
     selectedFile |-> Null, uploaderError |-> Null,
     awaiting |-> FALSE, uploaded |-> Null]

\* a page is displayed: its route is the location and the guard lets it be
Shown(a, path) == a.location.pathname = path /\ a.screen = "children"

\* a page keeps its state while it stays displayed, and is mounted anew
\* otherwise
Remount ==
    /\ gen' = IF Shown(auth, "/generator") /\ Shown(auth', "/generator")
              THEN gen ELSE GeneratorPage
    /\ ana' = IF Shown(auth, "/analyzer") /\ Shown(auth', "/analyzer")
              THEN ana ELSE AnalyzerPage

\* no handler of the context runs between a render of <Navigate> and its
\* effect: React flushes the effects of a commit before the next render
Ready(op) == auth.screen # "navigate" /\ op \notin auth.pending
Awaited(op) == auth.screen # "navigate" /\ op \in auth.pending

\* checkAuth after its await
CheckAuthDone(o) ==
    /\ Awaited("checkAuth")
    /\ auth' = Render([auth EXCEPT
                 !.user = IF o.thrown THEN Null ELSE o.value,
                 !.isLoading = FALSE,
                 !.thrown = NoError,
                 !.pending = @ \ {"checkAuth"}])
    /\ UNCHANGED calls
    /\ Remount

\* login and signup up to their await
SignInStart(op) ==
    /\ Ready(op)
    /\ auth' = Render([auth EXCEPT !.isLoading = TRUE, !.error = Null,
                                   !.pending = @ \cup {op}])
    /\ UNCHANGED calls
    /\ Remount

\* login and signup after their await
SignInDone(op, o, fallback) ==
    /\ Awaited(op)
    /\ auth' = Render(
          IF o.thrown
          THEN [auth EXCEPT !.error = FailureMessage(o.error, fallback),
                            !.isLoading = FALSE,
                            !.thrown = o.error,
                            !.pending = @ \ {op}]
          ELSE [auth EXCEPT !.user = o.value,
                            !.location = Location("/dashboard", ""),
                            !.isLoading = FALSE,
                            !.thrown = NoError,
                            !.pending = @ \ {op}])
    /\ UNCHANGED calls
    /\ Remount

LoginStart == SignInStart("login")
LoginDone(o) == SignInDone("login", o, "Login failed")
SignupStart == SignInStart("signup")
SignupDone(o) == SignInDone("signup", o, "Signup failed")

\* logout up to its await
LogoutStart ==
    /\ Ready("logout")
    /\ auth' = Render([auth EXCEPT !.isLoading = TRUE,
                                   !.pending = @ \cup {"logout"}])
    /\ UNCHANGED calls
    /\ Remount

\* logout with the session ended in the try block and the failure thrown on
LogoutDone_Propagates(o) ==
    /\ Awaited("logout")
    /\ auth' = Render(
          IF o.thrown
          THEN [auth EXCEPT !.isLoading = FALSE, !.thrown = o.error,
                            !.pending = @ \ {"logout"}]
          ELSE [auth EXCEPT !.user = Null, !.isLoading = FALSE,
                            !.location = Location("/login", ""),
                            !.thrown = NoError,
                            !.pending = @ \ {"logout"}])
    /\ UNCHANGED calls
    /\ Remount

\* logout after its await: the failure is logged; the finally block runs
\* however the call settled
LogoutDone(o) ==
    /\ Awaited("logout")
    /\ auth' = Render([auth EXCEPT !.user = Null, !.isLoading = FALSE,
                                   !.location = Location("/login", ""),
                                   !.thrown = NoError,
                                   !.logged = IF o.thrown THEN o.error ELSE @,
                                   !.pending = @ \ {"logout"}])
    /\ UNCHANGED calls
    /\ Remount

ClearError ==
    /\ auth.screen # "navigate"
    /\ auth' = Render([auth EXCEPT !.error = Null])
    /\ UNCHANGED calls
    /\ Remount

\* the user follows a link or the history to a path
Goto(path) ==
    /\ auth.screen # "navigate"
    /\ auth' = Render([auth EXCEPT !.location = Location(path, "")])
    /\ UNCHANGED calls
    /\ Remount

\* the effect of <Navigate to="/login" state={{ from: location }} replace />
NavigateEffect ==
    /\ auth.screen = "navigate"
    /\ auth' = Render([auth EXCEPT
                 !.location = Location("/login", auth.location.pathname)])
    /\ UNCHANGED calls
    /\ Remount

\* ----------------------------------------------------- saving a result
\* sampleResult, as far as the page reads it
SampleResult ==
    Obj(<<Member("id", Str("sample-1")),
          Member("suggestedCharts", Arr(<<Str("bar"), Str("line"), Str("pie")>>))>>)

\* the onClick of the Save button of either page: "toast" (reported as saved)
\* or "prompt" (setIsSavePromptOpen(true))
SaveClick(isAuthenticated) == IF isAuthenticated THEN "toast" ELSE "prompt"

\* loadSampleData
LoadSampleData ==
    /\ Shown(auth, "/analyzer")
    /\ ana' = [ana EXCEPT !.result = SampleResult,
                          !.selectedChart = Str("bar"),
                          !.toast = "Sample Data Loaded"]
    /\ UNCHANGED <<calls, auth, gen>>

\* the Save button of AnalyzerPage, rendered when there is a result and no
\* analysis is running
SaveAnalysis ==
    /\ Shown(auth, "/analyzer")
    /\ ~ana.isAnalyzing /\ Truthy(ana.result)
    /\ ana' = IF SaveClick(IsAuthenticated(auth.user)) = "toast"
              THEN [ana EXCEPT !.toast = "Saved!"]
              ELSE [ana EXCEPT !.isSavePromptOpen = TRUE]
    /\ UNCHANGED <<calls, auth, gen>>

\* ------------------------------------------------------- the analyzer
\* FileUploader's defaults: accept = '.csv,.pdf', maxSize = 10 (MB)
AcceptedTypes == { ".csv", ".pdf" }
MaxSize == 10

\* validateFile: the error it sets, null when the file is accepted
ValidateFile(f) ==
    IF f.kids[2] > MaxSize THEN Str("File size must be less than 10MB")
    ELSE IF f.kids[1] \notin AcceptedTypes
    THEN Str("Invalid file type. Please upload a CSV or PDF file.")
    ELSE Null

\* FileUploader.handleFile with the page's handleFileSelect; the drop zone
\* and its input are offered while no file is selected
HandleFile(f) ==
    /\ Shown(auth, "/analyzer")
    /\ ana.selectedFile = Null
    /\ ana' = IF ValidateFile(f) = Null
              THEN [ana EXCEPT !.uploaderError = Null, !.selectedFile = f,
                               !.file = f, !.manualData = ""]
              ELSE [ana EXCEPT !.uploaderError = ValidateFile(f)]
    /\ UNCHANGED <<calls, auth, gen>>

\* FileUploader.clearFile: the Remove button beside the selected file
ClearFile ==
    /\ Shown(auth, "/analyzer")
    /\ ana.selectedFile # Null
    /\ ana' = [ana EXCEPT !.selectedFile = Null, !.uploaderError = Null]
    /\ UNCHANGED <<calls, auth, gen>>

\* onChange of the manual data entry
EditManualData(text) ==
    /\ Shown(auth, "/analyzer")
    /\ ana' = [ana EXCEPT !.manualData = text, !.file = Null]
    /\ UNCHANGED <<calls, auth, gen>>

\* the chart selector, rendered with a result
SelectChart(type) ==
    /\ Shown(auth, "/analyzer")
    /\ ~ana.isAnalyzing /\ Truthy(ana.result)
    /\ ana' = [ana EXCEPT !.selectedChart = Str(type)]
    /\ UNCHANGED <<calls, auth, gen>>

\* the body of the manual-data POST
AnalyzePayload(page) ==
    Obj(<<Member("data", Str(page.manualData)), Member("prompt", Str(""))>>)

\* handleAnalyze up to its await; the button is disabled while isAnalyzing
\* or with neither a file nor manual data.  The call takes the place of the
\* one of the previous invocation, which has finished.
HandleAnalyze ==
    /\ Shown(auth, "/analyzer")
    /\ ~ana.isAnalyzing
    /\ Truthy(ana.file) \/ ana.manualData # ""
    /\ ~ana.awaiting
    /\ ana' = [ana EXCEPT !.isAnalyzing = TRUE, !.error = Null,
                          !.awaiting = TRUE,
                          !.uploaded = IF Truthy(ana.file) THEN ana.file
                                       ELSE Null]
    /\ calls' = [calls EXCEPT
          ![1] = IF Truthy(ana.file) THEN Upload(Idle, <<>>)
                 ELSE Invoke(Idle, "POST", AnalyzePayload(ana), NoOptions)]
    /\ UNCHANGED <<auth, gen>>

\* x.length of a value, as far as its truth goes
HasLength(v) ==
    \/ v.t = "array" /\ Len(v.kids) > 0
    \/ v.t = "string" /\ v.s # ""

\* x[0]: the first element of an array, the first character of a string
FirstOf(v) == IF v.t = "array" THEN v.kids[1] ELSE Val("char", v.s, <<>>)

\* the catch block that reports the failure instead
AnalyzeCatch_ReportsError(page) ==
    [page EXCEPT !.error = Str("Analysis failed"),
                 !.toast = "Analysis failed"]

\* lines 118-122: the catch block of handleAnalyze
AnalyzeCatch(page) ==
    [page EXCEPT !.result = SampleResult, !.selectedChart = Str("bar"),
                 !.toast = "Sample Data Loaded"]

\* lines 113-117: the try block after the await; reading suggestedCharts of
\* null or undefined throws, after setResult
AnalyzeTry(page, response) ==
    LET set == [page EXCEPT !.result = response]
        charts == Property(response, "suggestedCharts") IN
    IF response.t \in {"null", "undefined"} THEN AnalyzeCatch(set)
    ELSE [set EXCEPT !.selectedChart = IF HasLength(charts) THEN FirstOf(charts)
                                       ELSE @,
                     !.toast = "Analysis complete"]

\* handleAnalyze after its await, when the call has settled
AnalyzeDone ==
    /\ Shown(auth, "/analyzer")
    /\ ana.awaiting
    /\ calls[1].pc \in {"resolved", "rejected"}
    /\ LET after == IF calls[1].pc = "resolved"
                    THEN AnalyzeTry(ana, calls[1].value)
                    ELSE AnalyzeCatch(ana) IN
       ana' = [after EXCEPT !.isAnalyzing = FALSE, !.awaiting = FALSE]
    /\ UNCHANGED <<calls, auth, gen>>

\* ------------------------------------------- the fields of the form tab
\* addField: the id of the new field is Date.now().toString()
AddField(now) ==
    /\ Shown(auth, "/generator")
    /\ gen.activeTab = "form"
    /\ Len(gen.fields) < MaxFieldDefs
    /\ gen' = [gen EXCEPT !.fields = Append(@, Field(now, "", "string"))]
    /\ UNCHANGED <<calls, auth, ana>>

\* removeField(id), from the Remove button of a field of that id
RemoveField(id) ==
    /\ Shown(auth, "/generator")
    /\ gen.activeTab = "form"
    /\ \E i \in DOMAIN gen.fields : gen.fields[i].id = id
    /\ gen' = IF Len(gen.fields) > 1
              THEN [gen EXCEPT !.fields = SelectSeq(@, LAMBDA f : f.id # id)]
              ELSE gen
    /\ UNCHANGED <<calls, auth, ana>>

\* { ...f, ...updates }
Spread(f, updates) ==
    [k \in DOMAIN f |-> IF k \in DOMAIN updates THEN updates[k] ELSE f[k]]

\* updateField(id, updates), from the inputs of a field of that id
UpdateField(id, updates) ==
    /\ Shown(auth, "/generator")
    /\ gen.activeTab = "form"
    /\ \E i \in DOMAIN gen.fields : gen.fields[i].id = id
    /\ gen' = [gen EXCEPT !.fields =
                 [i \in DOMAIN @ |-> IF @[i].id = id THEN Spread(@[i], updates)
                                     ELSE @[i]]]
    /\ UNCHANGED <<calls, auth, ana>>

\* ---------------------------------------------------------- generation
\* a dialog is open over the page: the page behind it takes no clicks
ModalOpen == gen.isEditModalOpen \/ gen.isSavePromptOpen

\* the tab buttons
SetActiveTab(tab) ==
    /\ Shown(auth, "/generator")
    /\ ~ModalOpen
    /\ gen' = [gen EXCEPT !.activeTab = tab]
    /\ UNCHANGED <<calls, auth, ana>>

\* onChange of the rules text
SetRulesJson(text) ==
    /\ Shown(auth, "/generator")
    /\ ~ModalOpen /\ gen.activeTab = "rules"
    /\ gen' = [gen EXCEPT !.rulesJson = text]
    /\ UNCHANGED <<calls, auth, ana>>

\* lines 128-145: the payload of the active tab (datasetName, rowCount and
\* prompt at their initial values); JSON.parse of the rules may throw
GeneratePayload(page) ==
    CASE page.activeTab = "form" ->
           Returned(Obj(<<
              Member("name", Str("")),
              Member("rowCount", Val("number", "100", <<>>)),
              Member("fields",
                 Arr([i \in DOMAIN SelectSeq(page.fields, LAMBDA f : f.name # "")
                        |-> LET f == SelectSeq(page.fields,
                                               LAMBDA g : g.name # "")[i] IN
                            Obj(<<Member("id", Str(f.id)),
                                  Member("name", Str(f.name)),
                                  Member("type", Str(f.type)),
                                  Member("required",
                                         Val("boolean", "true", <<>>))>>)]))>>))
      [] page.activeTab = "rules" ->
           LET r == JSONParse(IF page.rulesJson = <<>> THEN <<"{", "}">>
                              ELSE page.rulesJson) IN
           IF r.ok THEN Returned(Obj(<<Member("rules", r.val)>>))
           ELSE Threw(SyntaxError(r.msg))
      [] OTHER -> Returned(Obj(<<Member("prompt", Str(""))>>))

\* lines 153-159: the catch block of handleGenerate
GenerateCatch(page) ==
    [page EXCEPT
       !.error = Str("Failed to generate dataset. Please check your inputs and try again."),
       !.toast = "Generation failed"]

\* handleGenerate up to its await, as invocation n with the call n; when
\* the payload cannot be built the handler ends at once, without a call
HandleGenerate(page) ==
    LET n == page.started + 1
        payload == GeneratePayload(page) IN
    /\ n \in GenIds
    /\ IF payload.thrown
       THEN /\ gen' = [GenerateCatch([page EXCEPT !.error = Null])
                         EXCEPT !.isGenerating = FALSE]
            /\ UNCHANGED calls
       ELSE /\ gen' = [page EXCEPT !.isGenerating = TRUE, !.error = Null,
                                   !.started = n, !.awaiting = @ \cup {n}]
            /\ calls' = [calls EXCEPT
                  ![n] = Invoke(Idle, "POST", payload.value, NoOptions)]
    /\ UNCHANGED <<auth, ana>>

\* the Generate button, disabled while isGenerating
Generate ==
    /\ Shown(auth, "/generator")
    /\ ~ModalOpen /\ ~gen.isGenerating
    /\ HandleGenerate(gen)

\* the action of the empty state, rendered with no generation running and
\* no dataset
EmptyStateAction ==
    /\ Shown(auth, "/generator")
    /\ ~ModalOpen /\ ~gen.isGenerating /\ ~Truthy(gen.generatedData)
    /\ HandleGenerate(gen)

\* the Edit button, rendered with a dataset
OpenEdit ==
    /\ Shown(auth, "/generator")
    /\ ~ModalOpen /\ Truthy(gen.generatedData)
    /\ gen' = [gen EXCEPT !.isEditModalOpen = TRUE]
    /\ UNCHANGED <<calls, auth, ana>>

\* Cancel in the edit dialog
CancelEdit ==
    /\ Shown(auth, "/generator")
    /\ gen.isEditModalOpen
    /\ gen' = [gen EXCEPT !.isEditModalOpen = FALSE]
    /\ UNCHANGED <<calls, auth, ana>>

\* Regenerate in the edit dialog
Regenerate ==
    /\ Shown(auth, "/generator")
    /\ gen.isEditModalOpen
    /\ HandleGenerate([gen EXCEPT !.isEditModalOpen = FALSE])

\* lines 148-152: the try block after the await; the toast reads
\* result.summary.totalRows, which throws when result has no summary
GenerateTry(page, n, result) ==
    LET set == [page EXCEPT !.generatedData = result, !.dataFrom = n] IN
    IF Property(result, "summary").t \in {"null", "undefined"}
    THEN GenerateCatch(set)
    ELSE [set EXCEPT !.toast = "Dataset generated"]

\* handleGenerate after its await, when the call of invocation n has settled
GenerateDone(n) ==
    /\ Shown(auth, "/generator")
    /\ n \in gen.awaiting
    /\ calls[n].pc \in {"resolved", "rejected"}
    /\ LET after == IF calls[n].pc = "resolved"
                    THEN GenerateTry(gen, n, calls[n].value)
                    ELSE GenerateCatch(gen) IN
       gen' = [after EXCEPT !.isGenerating = FALSE, !.awaiting = @ \ {n}]
    /\ UNCHANGED <<calls, auth, ana>>

\* the Save button of GeneratorPage, rendered with a dataset
SaveDataset ==
    /\ Shown(auth, "/generator")
    /\ ~ModalOpen /\ Truthy(gen.generatedData)
    /\ gen' = IF SaveClick(IsAuthenticated(auth.user)) = "toast"
              THEN [gen EXCEPT !.toast = "Saved!"]
              ELSE [gen EXCEPT !.isSavePromptOpen = TRUE]
    /\ UNCHANGED <<calls, auth, ana>>

\* the pages as they are while they are not displayed
NoPages == gen = GeneratorPage /\ ana = AnalyzerPage

Init == calls = [c \in CallIds |-> Idle] /\ auth = Mounted("/") /\ NoPages

Next ==
    \E c \in CallIds :
        \/ \E verb \in Verbs, body \in Bodies : ApiCall(c, verb, body, NoOptions)
        \/ UploadFile(c, <<>>)
        \/ TimerFires(c)
        \/ \E f \in TransportFailures : FetchFails(c, f)
        \/ \E r \in Responses : ResponseArrives(c, r)
        \/ \E r \in Responses : LateResponse(c, r)
        \/ \E read \in BodyReads : BodyComplete(c, read)

Spec == Init /\ [][Next]_vars

\* ----------------------------------------- what the client hands to fetch
\* The same calls with every option a caller can pass, against a server
\* that answers 200 with an empty object.
MaxFields == 2

CallerHeaders ==
    { NoHeaders,
      HeadersInit("record", << <<"Authorization", "Bearer t">> >>),
      HeadersInit("record", << <<"Content-Type", "text/csv">> >>),
      HeadersInit("record", << <<"content-type", "text/csv">> >>),
      HeadersInit("Headers", << <<"Authorization", "Bearer t">> >>) }

CallerOptions ==
    { Options(m, Undefined, h, cr, sg, t) :
        m \in {"", "HEAD"}, h \in CallerHeaders, cr \in {"", "omit"},
        sg \in {"", "callerSignal"}, t \in {<<>>, <<50>>} }

CallerBodies == Bodies \cup { Null, Str(""), Zero, False }

\* the additionalData of an upload: up to MaxFields fields of different names
FieldNames == {"name", "type", "file"}
ExtraFields ==
    { e \in UNION { [1..n -> { <<k, "v">> : k \in FieldNames }] : n \in 0..MaxFields } :
        \A i, j \in 1..Len(e) : i # j => e[i][1] # e[j][1] }

SendResponses == { Response(200, "OK", <<"{", "}">>) }

NextSend ==
    \E c \in {1} :
        \/ \E verb \in Verbs, body \in CallerBodies, options \in CallerOptions :
              ApiCall(c, verb, body, options)
        \/ \E additionalData \in ExtraFields : UploadFile(c, additionalData)
        \/ TimerFires(c)
        \/ \E r \in SendResponses : ResponseArrives(c, r)
        \/ BodyComplete(c, "text")

SpecSend == Init /\ [][NextSend]_vars

\* ------------------------------------------- the context and the routes
InitAuth ==
    /\ calls = [c \in CallIds |-> Idle]
    /\ \E path \in Paths : auth = Mounted(path)
    /\ NoPages

NextAuth ==
    \/ \E o \in AuthOutcomes : CheckAuthDone(o)
    \/ LoginStart
    \/ \E o \in AuthOutcomes : LoginDone(o)
    \/ SignupStart
    \/ \E o \in AuthOutcomes : SignupDone(o)
    \/ LogoutStart
    \/ \E o \in AuthOutcomes : LogoutDone(o)
    \/ ClearError
    \/ \E path \in Paths : Goto(path)
    \/ NavigateEffect

SpecAuth == InitAuth /\ [][NextAuth]_vars

\* the context, the routes and the Save button of the analyzer
NextSave ==
    \/ NextAuth
    \/ LoadSampleData
    \/ SaveAnalysis

SpecSave == InitAuth /\ [][NextSave]_vars

\* ----------------------------------------- the auth check at mount time
\* the provider mounted at a path, its GET /auth/me on its way
InitCheck ==
    /\ calls = [c \in {1} |-> Invoke(Idle, "GET", Undefined, NoOptions)]
    /\ \E path \in Paths : auth = Mounted(path)
    /\ NoPages

\* the call of checkAuth has settled: its continuation runs
CheckAuthSettled ==
    /\ calls[1].pc \in {"resolved", "rejected"}
    /\ CheckAuthDone(Settlement(calls[1]))

NextCheck ==
    \/ TimerFires(1)
    \/ \E f \in TransportFailures : FetchFails(1, f)
    \/ \E r \in Responses : ResponseArrives(1, r)
    \/ \E r \in Responses : LateResponse(1, r)
    \/ \E read \in BodyReads : BodyComplete(1, read)
    \/ CheckAuthSettled
    \/ NavigateEffect

\* An armed timer fires, the continuation of a settled promise runs and the
\* effect of a rendered <Navigate> runs; the network owes nothing.
SpecCheck ==
    /\ InitCheck /\ [][NextCheck]_vars
    /\ WF_vars(TimerFires(1))
    /\ WF_vars(CheckAuthSettled)
    /\ WF_vars(NavigateEffect)

\* --------------------------------------------------- the analyzer page
\* the files a user drops: two that pass, one of another type, one too large
Files ==
    { File("a.csv", ".csv", 1), File("b.pdf", ".pdf", 1),
      File("c.exe", ".exe", 1), File("big.csv", ".csv", 11) }

AnalyzeResponses ==
    { Response(200, "OK", <<"{", "'suggestedCharts", ":", "[", "'line", "]", "}">>),
      Response(200, "OK", <<"{", "'id", ":", "'id", "}">>),
      Response(200, "OK", <<"null">>),
      Response(200, "OK", <<>>),
      Response(500, "Internal Server Error", <<"<">>) }

\* a signed-in user at /analyzer
InitAnalyze ==
    /\ calls = [c \in {1} |-> Idle]
    /\ auth = SignedIn("/analyzer")
    /\ NoPages

NextAnalyze ==
    \/ \E f \in Files : HandleFile(f)
    \/ ClearFile
    \/ \E text \in {"", "x"} : EditManualData(text)
    \/ HandleAnalyze
    \/ AnalyzeDone
    \/ LoadSampleData
    \/ SelectChart("line")
    \/ SaveAnalysis
    \/ TimerFires(1)
    \/ FetchFails(1, "network")
    \/ \E r \in AnalyzeResponses : ResponseArrives(1, r)
    \/ BodyComplete(1, "text")

SpecAnalyze == InitAnalyze /\ [][NextAnalyze]_vars

\* ------------------------------------------------- the generator's form
\* what the clock reads when Add Field is pressed: the same millisecond
\* twice, or a later one
ClockReadings == { "1700000000000", "1700000000001" }
FieldIds == { "1" } \cup ClockReadings

\* a signed-in user at /generator
InitGenerator ==
    /\ auth = SignedIn("/generator")
    /\ NoPages

InitFields == calls = [c \in {1} |-> Idle] /\ InitGenerator

NextFields ==
    \/ \E now \in ClockReadings : AddField(now)
    \/ \E id \in FieldIds : RemoveField(id)
    \/ \E id \in FieldIds, name \in {"", "age"} : UpdateField(id, [name |-> name])
    \/ \E id \in FieldIds, type \in {"string", "number"} :
          UpdateField(id, [type |-> type])

SpecFields == InitFields /\ [][NextFields]_vars

\* -------------------------------------------------- the generator page
GenerateResponses ==
    { Response(200, "OK", <<"{", "'summary", ":", "{", "}", "}">>),
      Response(500, "Internal Server Error", <<>>) }

InitGenerate == calls = [c \in GenIds |-> Idle] /\ InitGenerator

NextGenerate ==
    \/ \E tab \in {"form", "rules", "prompt"} : SetActiveTab(tab)
    \/ SetRulesJson(<<"<">>)
    \/ Generate
    \/ EmptyStateAction
    \/ OpenEdit
    \/ CancelEdit
    \/ Regenerate
    \/ SaveDataset
    \/ \E n \in GenIds :
          \/ GenerateDone(n)
          \/ TimerFires(n)
          \/ \E r \in GenerateResponses : ResponseArrives(n, r)
          \/ BodyComplete(n, "text")

SpecGenerate == InitGenerate /\ [][NextGenerate]_vars

\* ------------------------------------------------- two overlapping calls
PairIds == {1, 2}
InitPair ==
    calls = [c \in PairIds |-> Idle] /\ auth = Mounted("/") /\ NoPages

PairResponses ==
    { Response(200, "OK", <<"[", "]">>),
      Response(401, "Unauthorized",
               <<"{", "'message", ":", "'Invalid credentials", "}">>) }

NextPair ==
    \E c \in PairIds :
        \/ \E verb \in {"GET", "POST"} : ApiCall(c, verb, Undefined, NoOptions)
        \/ UploadFile(c, <<>>)
        \/ TimerFires(c)
        \/ FetchFails(c, "network")
        \/ \E r \in PairResponses : ResponseArrives(c, r)
        \/ \E r \in PairResponses : LateResponse(c, r)
        \/ BodyComplete(c, "text")

SpecPair == InitPair /\ [][NextPair]_vars

\* two calls to a server that never answers; a timer that is armed fires
NextSilent ==
    \E c \in PairIds :
        \/ \E verb \in Verbs, body \in Bodies : ApiCall(c, verb, body, NoOptions)
        \/ UploadFile(c, <<>>)
        \/ TimerFires(c)

SpecSilent ==
    InitPair /\ [][NextSilent]_vars /\ \A c \in PairIds : WF_vars(TimerFires(c))

\* ------------------------------------------------------------ properties
Requests == { c \in DOMAIN calls : calls[c].kind = "request" }
Uploads == { c \in DOMAIN calls : calls[c].kind = "upload" }
Settled(c) == calls[c].pc \in {"resolved", "rejected"}
Rejected(c) == calls[c].pc = "rejected"
Resolved(c) == calls[c].pc = "resolved"

\* the fields of the error a client-side timeout produces
ClientTimeoutShape(e) ==
    /\ e.cls = "ApiError"
    /\ e.status = 408
    /\ e.statusText = "Request Timeout"
    /\ e.data = Undefined

\* the call has read (or failed to read) the body of a response
BodyDone(c) == calls[c].response # NoResponse /\ calls[c].read # "none"

\* the origins of a failure of a generic call
FailureOrigins ==
    { "serialize", "network", "abort", "nonerror", "timeout", "http",
      "bodyread", "bodyabort", "parse" }

\* C1: a generic call that has settled has either resolved, with no error, or
\* rejected with an ApiError, whatever the failure came from (serialization,
\* transport, abort, body read, malformed JSON): never with the raw value
\* the platform threw.
C1_RequestSettlesWithValueOrApiError ==
    \A c \in Requests :
        /\ Resolved(c) => calls[c].error = NoError /\ calls[c].origin = "none"
        /\ Rejected(c) =>
              /\ calls[c].origin \in FailureOrigins
              /\ calls[c].error.cls = "ApiError"
              /\ calls[c].error.name = "ApiError"

\* a generic call rejected because the 2xx body was malformed JSON
C1_Witness ==
    \E c \in Requests :
        /\ Rejected(c)
        /\ calls[c].origin = "parse"
        /\ calls[c].error.cls = "ApiError"

\* C2: a call of uploadFile that has rejected has rejected with an ApiError,
\* also when the transport failed and when the 2xx body was empty or no JSON.
C2_UploadRejectsOnlyWithApiError ==
    \A c \in Uploads : Rejected(c) => calls[c].error.cls = "ApiError"

\* C3: once the timer of a generic call has fired, the call is rejected with
\* exactly ApiError(408, "Request Timeout"), and stays so when the server's
\* response arrives afterwards and is discarded.
C3_TimeoutRejects408 ==
    \A c \in Requests :
        calls[c].timer = "fired" =>
            /\ Rejected(c)
            /\ calls[c].error.cls = "ApiError"
            /\ calls[c].error.status = 408
            /\ calls[c].error.statusText = "Request Timeout"
            /\ calls[c].error.data = Undefined
            /\ calls[c].response = NoResponse

\* the timer fired, and the server answered afterwards
C3_Witness ==
    \E c \in Requests :
        /\ calls[c].timer = "fired"
        /\ calls[c].net = "discarded"
        /\ Rejected(c)
        /\ calls[c].error.status = 408

\* C4: a generic call that has settled has no armed timer, on every exit
\* path; an armed timer belongs to a call still waiting for fetch.
C4_NoArmedTimerOnceSettled ==
    \A c \in Requests :
        /\ Settled(c) => calls[c].timer \in {"cleared", "fired"}
        /\ calls[c].timer = "armed" => calls[c].pc = "fetching"

\* a generic call rejected by a transport failure, its timer cleared
C4_Witness ==
    \E c \in Requests :
        /\ Rejected(c)
        /\ calls[c].origin = "network"
        /\ calls[c].timer = "cleared"

\* C5: on both paths, a response whose status is outside 200..299 rejects
\* the call with an ApiError that carries the response's status and status
\* text; its detail is the JSON value of the body when the body was read and
\* parses, and null (no detail) otherwise, the status staying the response's.
C5_HttpErrorCarriesStatusAndDetail ==
    \A c \in Requests \cup Uploads :
        BodyDone(c) /\ ~Ok(calls[c].response) =>
            LET r == calls[c].response
                e == calls[c].error
                parsed == JSONParse(r.text) IN
            /\ Rejected(c)
            /\ e.cls = "ApiError"
            /\ e.status = r.status
            /\ e.statusText = r.statusText
            /\ calls[c].read = "text" /\ parsed.ok => e.data = parsed.val
            /\ calls[c].read # "text" \/ ~parsed.ok => e.data = Null
            /\ calls[c].read = "text"
                 /\ r.text = <<"{", "'message", ":", "'Invalid credentials", "}">>
                 => e.data = Obj(<<Member("message", Str("Invalid credentials"))>>)

\* an upload answered 401 with a body that is no JSON
C5_Witness ==
    \E c \in Uploads :
        /\ Rejected(c)
        /\ calls[c].response.status = 401
        /\ calls[c].read = "text"
        /\ calls[c].response.text = <<"<">>
        /\ calls[c].error.status = 401
        /\ calls[c].error.data = Null

\* C6: a generic call whose 2xx response has an empty body resolves with an
\* empty object; one whose body is non-empty JSON resolves with the decoded
\* value ("[]" with the empty array); a resolved value is never undefined.
C6_SuccessValueIsDecodedBody ==
    \A c \in Requests :
        BodyDone(c) /\ Ok(calls[c].response) /\ calls[c].read = "text" =>
            LET text == calls[c].response.text
                parsed == JSONParse(text) IN
            /\ text = <<>> => Resolved(c) /\ calls[c].value = Obj(<<>>)
            /\ text # <<>> /\ parsed.ok =>
                  Resolved(c) /\ calls[c].value = parsed.val
            /\ text = <<"[", "]">> => Resolved(c) /\ calls[c].value = Arr(<<>>)
            /\ Resolved(c) => calls[c].value # Undefined
            /\ Resolved(c) /\ text = <<>> => calls[c].value # Null

\* a generic call answered 204 with an empty body has resolved with {}
C6_Witness ==
    \E c \in Requests :
        /\ Resolved(c)
        /\ calls[c].response.status = 204
        /\ calls[c].response.text = <<>>
        /\ calls[c].value = EmptyObject

\* C7: a generic call whose 2xx response has a non-empty body that is no
\* JSON rejects with ApiError(0, <the parser's message>) and no detail.
C7_MalformedSuccessBodyRejects0 ==
    \A c \in Requests :
        BodyDone(c) /\ Ok(calls[c].response) /\ calls[c].read = "text" =>
            LET text == calls[c].response.text
                parsed == JSONParse(text) IN
            text # <<>> /\ ~parsed.ok =>
                /\ Rejected(c)
                /\ calls[c].error.cls = "ApiError"
                /\ calls[c].error.status = 0
                /\ calls[c].error.statusText = parsed.msg
                /\ calls[c].error.statusText \in {UnexpectedEnd, UnexpectedToken}
                /\ calls[c].error.data = Undefined

\* a 200 response with the body "<" has rejected the call with status 0
C7_Witness ==
    \E c \in Requests :
        /\ Rejected(c)
        /\ calls[c].response.status = 200
        /\ calls[c].response.text = <<"<">>
        /\ calls[c].error.status = 0
        /\ calls[c].error.statusText = UnexpectedToken

\* C8: a generic call whose fetch was rejected with an Error that is no
\* AbortError rejects with ApiError(0, <that Error's message>); one whose
\* fetch was rejected with a value that is no Error rejects with
\* ApiError(0, "Unknown Error").
C8_TransportErrorRejects0 ==
    \A c \in Requests :
        /\ calls[c].origin = "network" =>
              /\ Rejected(c)
              /\ calls[c].error.cls = "ApiError"
              /\ calls[c].error.status = 0
              /\ calls[c].error.statusText = "Failed to fetch"
        /\ calls[c].origin = "bodyread" =>
              /\ Rejected(c)
              /\ calls[c].error.status = 0
              /\ calls[c].error.statusText = "Failed to fetch"
        /\ calls[c].origin = "nonerror" =>
              /\ Rejected(c)
              /\ calls[c].error.cls = "ApiError"
              /\ calls[c].error.status = 0
              /\ calls[c].error.statusText = "Unknown Error"

\* a generic call whose fetch failed with "Failed to fetch"
C8_Witness ==
    \E c \in Requests :
        /\ calls[c].origin = "network"
        /\ calls[c].net = "failed"
        /\ calls[c].error.statusText = "Failed to fetch"

\* C9: a generic call is rejected with (408, "Request Timeout") only if its
\* timer fired; an AbortError the transport raises while the timer has not
\* fired is reported with status 0.
C9_TimeoutSentinelOnlyFromOwnTimer ==
    \A c \in Requests :
        Rejected(c) =>
            /\ ClientTimeoutShape(calls[c].error) => calls[c].timer = "fired"
            /\ calls[c].origin \in {"abort", "bodyabort"} =>
                  calls[c].error.status = 0

\* C10: the error of a client-side timeout and the error of a server's 408
\* response differ in their fields: the first is (408, "Request Timeout",
\* undefined), the second never is, whatever its status text and body.
C10_TimeoutDiffersFromServer408 ==
    \A c \in Requests \cup Uploads :
        Rejected(c) =>
            /\ calls[c].origin = "timeout" => ClientTimeoutShape(calls[c].error)
            /\ calls[c].origin = "http" => ~ClientTimeoutShape(calls[c].error)

\* the server answered 408 "Request Timeout" with a body that is no JSON
C10_Witness ==
    \E c \in Requests :
        /\ Rejected(c)
        /\ calls[c].origin = "http"
        /\ calls[c].response.status = 408
        /\ calls[c].response.statusText = "Request Timeout"
        /\ ~JSONParse(calls[c].response.text).ok
        /\ calls[c].error.status = 408
        /\ calls[c].error.statusText = "Request Timeout"

\* ---------------------------------------------- properties of what is sent
Fetched(c) == calls[c].fetched

\* C11: a generic call whose body JSON.stringify cannot serialize (a circular
\* structure) calls fetch not at all: nothing is in flight, the call is
\* rejected with ApiError(0, <the TypeError's message>) and its timer is
\* cleared.
C11_UnserializableBodyRejectsBeforeFetch ==
    \A c \in Requests :
        Truthy(calls[c].options.body) /\ ~Stringify(calls[c].options.body).ok =>
            /\ ~Fetched(c)
            /\ calls[c].net = "none"
            /\ calls[c].response = NoResponse
            /\ Rejected(c)
            /\ calls[c].error.cls = "ApiError"
            /\ calls[c].error.status = 0
            /\ calls[c].error.statusText = CircularMessage
            /\ calls[c].timer = "cleared"

\* api.post was called with a circular body
C11_Witness ==
    \E c \in Requests :
        /\ calls[c].arg.verb = "POST"
        /\ calls[c].arg.body = Circular
        /\ Rejected(c)
        /\ ~Fetched(c)

\* the caller's value for the header name, "" when the caller gives none
CallerValue(h, name) ==
    IF \E i \in 1..Len(h.entries) : Lower(h.entries[i][1]) = name
    THEN h.entries[CHOOSE i \in 1..Len(h.entries) :
                        Lower(h.entries[i][1]) = name][2]
    ELSE ""

\* C12: the headers a generic call sends are the caller's headers, each
\* with the caller's value, and Content-Type: application/json exactly when
\* the caller gives no Content-Type.
C12_CallerHeadersMergedOverDefault ==
    \A c \in Requests :
        Fetched(c) =>
            LET h == calls[c].options.headers
                wire == WireHeaders(calls[c].headers) IN
            /\ \A i \in 1..Len(h.entries) :
                  HeaderValue(wire, Lower(h.entries[i][1])) = h.entries[i][2]
            /\ CallerValue(h, "content-type") = "" =>
                  HeaderValue(wire, "content-type") = "application/json"
            /\ CallerValue(h, "content-type") # "" =>
                  HeaderValue(wire, "content-type") = CallerValue(h, "content-type")

\* C13: every call of fetch, generic or upload, has credentials 'include',
\* and a generic call's fetch has the signal of the call's own controller,
\* whatever credentials and signal the caller's options carry.
C13_CredentialsAndSignalAreTheClients ==
    \A c \in Requests \cup Uploads :
        Fetched(c) =>
            /\ calls[c].credentials = "include"
            /\ calls[c].kind = "request" => calls[c].signal = "controller"

\* the caller passed credentials: 'omit' and a signal of its own
C13_Witness ==
    \E c \in Requests :
        /\ Fetched(c)
        /\ calls[c].options.credentials = "omit"
        /\ calls[c].options.signal = "callerSignal"
        /\ calls[c].credentials = "include"

\* C14: a generic call given a body other than undefined sends the JSON
\* text of that body, falsy or not; it sends no body only when given none.
C14_EveryGivenBodyIsSent ==
    \A c \in Requests :
        Fetched(c) =>
            /\ calls[c].options.body # Undefined =>
                  /\ calls[c].hasBody
                  /\ calls[c].sentBody = Stringify(calls[c].options.body).toks
            /\ calls[c].options.body = Undefined => ~calls[c].hasBody

\* C15: a verb helper hands request the caller's options with the method set
\* to its own verb, whatever method the options name, and for post, put and
\* patch with the body set to its body argument; fetch is called with that
\* verb, the timer is armed with the caller's timeout, and a truthy body
\* argument is sent as its JSON text.
C15_HelperFixesMethodForwardsOptions ==
    \A c \in Requests :
        LET a == calls[c].arg
            o == calls[c].options IN
        /\ a.verb \in Verbs
        /\ o.method = a.verb
        /\ o.timeout = a.options.timeout
        /\ o.headers = a.options.headers
        /\ o.credentials = a.options.credentials
        /\ o.signal = a.options.signal
        /\ TakesBody(a.verb) => o.body = a.body
        /\ ~TakesBody(a.verb) => o.body = a.options.body
        /\ a.options.timeout # <<>> => calls[c].timeout = a.options.timeout
        /\ a.options.timeout = <<>> => calls[c].timeout = <<30000>>
        /\ Fetched(c) => calls[c].method = a.verb
        /\ Fetched(c) /\ TakesBody(a.verb) /\ Truthy(a.body) =>
              calls[c].hasBody /\ JSONParse(calls[c].sentBody).val = a.body

\* api.put was called with a body, a timeout and options naming another method
C15_Witness ==
    \E c \in Requests :
        /\ Fetched(c)
        /\ calls[c].arg.verb = "PUT"
        /\ calls[c].arg.options.method = "HEAD"
        /\ calls[c].arg.options.timeout = <<50>>
        /\ Truthy(calls[c].arg.body)
        /\ calls[c].method = "PUT"

\* C16: uploadFile with n extra fields calls fetch with method POST,
\* credentials 'include', no headers and a payload of n + 1 parts: the file
\* under the name 'file', then each extra field with its value.
C16_UploadSendsFilePlusFields ==
    \A c \in Uploads :
        LET extra == calls[c].extra
            parts == calls[c].parts IN
        /\ Fetched(c)
        /\ calls[c].method = "POST"
        /\ calls[c].credentials = "include"
        /\ calls[c].headers = <<>>
        /\ Len(parts) = Len(extra) + 1
        /\ parts[1] = <<"file", TheFile>>
        /\ \A i \in 1..Len(extra) : parts[i + 1] = extra[i]

\* an upload with two extra fields, one of them named 'file'
C16_Witness ==
    \E c \in Uploads :
        /\ Len(calls[c].extra) = 2
        /\ \E i \in 1..2 : calls[c].extra[i][1] = "file"
        /\ Len(calls[c].parts) = 3

\* ------------------------------------------- properties of time and overlap
\* C17: uploadFile arms no timer and never rejects with the error of a
\* client-side timeout; while the server does not answer, a pending upload
\* stays pending, whereas a pending generic call is rejected with
\* (408, "Request Timeout") once its timer fires.
C17_UploadHasNoTimeout ==
    /\ [](\A c \in PairIds :
            calls[c].kind = "upload" =>
                /\ calls[c].timer = "none"
                /\ calls[c].signal = ""
                /\ ~ClientTimeoutShape(calls[c].error))
    /\ [][\A c \in PairIds :
            calls[c].kind = "upload" /\ calls[c].pc = "fetching" =>
                calls'[c] = calls[c]]_vars
    /\ \A c \in PairIds :
          (calls[c].kind = "request" /\ calls[c].pc = "fetching")
             ~> (calls[c].pc = "rejected" /\ ClientTimeoutShape(calls[c].error))

\* the generic call has timed out while the upload is still pending
C17_Witness ==
    \E c, d \in PairIds :
        /\ calls[c].kind = "upload" /\ calls[c].pc = "fetching"
        /\ calls[d].kind = "request" /\ calls[d].origin = "timeout"
        /\ ClientTimeoutShape(calls[d].error)

\* what a call has received follows from its own timer, transport and response
OwnOutcome(c) ==
    /\ calls[c].origin = "timeout" <=>
          calls[c].kind = "request" /\ calls[c].timer = "fired"
    /\ calls[c].origin = "network" <=> calls[c].net = "failed"
    /\ calls[c].origin = "http" =>
          /\ calls[c].net = "delivered"
          /\ calls[c].error.status = calls[c].response.status
    /\ calls[c].pc = "resolved" =>
          /\ calls[c].net = "delivered"
          /\ Ok(calls[c].response)
          /\ calls[c].value = JSONParse(calls[c].response.text).val
    /\ calls[c].pc = "fetching" =>
          /\ calls[c].net = "inflight"
          /\ calls[c].kind = "request" => calls[c].timer = "armed"

\* C18: of two overlapping calls each has a timer and a controller of its
\* own: every step (a timer firing, a failure, a response, a body read)
\* changes one call and leaves the other as it was, and what a call has
\* received follows from its own timer, transport and response.
C18_OverlappingCallsAreIndependent ==
    /\ [](\A c \in PairIds : OwnOutcome(c))
    /\ [][\A c \in PairIds :
            calls'[c] # calls[c] =>
                \A d \in PairIds \ {c} : calls'[d] = calls[d]]_vars

\* two GET calls: one has timed out, the other has resolved
C18_Witness ==
    \E c, d \in PairIds :
        /\ c # d
        /\ calls[c].kind = "request" /\ calls[d].kind = "request"
        /\ calls[c].method = "GET" /\ calls[d].method = "GET"
        /\ calls[c].origin = "timeout"
        /\ calls[d].pc = "resolved"

\* C19: a generic call whose response has arrived has its timer cleared, not
\* fired, and never rejects with the error of a client-side timeout,
\* however the read of the body ends.
C19_ResponseFirstNever408 ==
    \A c \in Requests :
        calls[c].response # NoResponse =>
            /\ calls[c].timer = "cleared"
            /\ Rejected(c) => ~ClientTimeoutShape(calls[c].error)

\* --------------------------------------------- properties of the route guard
\* C20: on /dashboard, /generator and /analyzer, after any sequence of auth
\* operations: the children are rendered only when isLoading is false and a
\* user is set; while isLoading is true the skeleton is rendered and no
\* redirect happens; when isLoading is false and no user is set the guard
\* redirects to /login with the current location as state.from.
C20_ProtectedRouteGuards ==
    /\ [](/\ auth.screen = "children" =>
                /\ auth.location.pathname \in ProtectedRoutes
                /\ ~auth.isLoading
                /\ auth.user # Null /\ auth.user # Undefined
          /\ auth.location.pathname \in ProtectedRoutes /\ auth.isLoading =>
                auth.screen = "skeleton"
          /\ auth.location.pathname \in ProtectedRoutes /\ ~auth.isLoading
                /\ auth.user = Null =>
                auth.screen = "navigate")
    /\ [][auth.screen = "navigate" =>
             auth'.location = Location("/login", auth.location.pathname)]_vars
    /\ [][auth'.location # auth.location /\ auth'.location.from # "" =>
             /\ ~auth.isLoading /\ ~IsAuthenticated(auth.user)
             /\ auth.location.pathname \in ProtectedRoutes
             /\ auth'.location.pathname = "/login"]_vars

\* after a failed login and with no user, /analyzer has been redirected to
\* /login and the location carries where the user came from
C20_Witness ==
    /\ auth.location = Location("/login", "/analyzer")
    /\ auth.error = Str("Invalid credentials")
    /\ auth.user = Null /\ ~auth.isLoading

\* ------------------------------ properties of login, signup and logout
\* the step in which an operation of the context finishes
Finishes(op) == op \in auth.pending /\ op \notin auth'.pending

\* C24: a user set by a successful login or signup stays set until logout is
\* invoked: the mount-time auth check, when it finishes after the login,
\* leaves the user as it is.
C24_LoginSurvivesAuthCheck ==
    [][/\ IsAuthenticated(auth.user)
       /\ "logout" \notin auth.pending
       /\ Finishes("checkAuth")
       => auth'.user = auth.user]_vars

\* C25: logout always ends the session locally: however POST /auth/logout
\* settles, when logout finishes the user is null, isLoading is false, the
\* location is /login and nothing is thrown to the caller.
C25_LogoutAlwaysEndsSession ==
    [][Finishes("logout") =>
          /\ auth'.user = Null
          /\ ~auth'.isLoading
          /\ auth'.location = Location("/login", "")
          /\ auth'.thrown = NoError]_vars

\* the logout request has failed (the failure is on the console) and the
\* session is ended all the same
C25_Witness ==
    /\ auth.logged.cls = "ApiError"
    /\ "logout" \notin auth.pending
    /\ auth.user = Null /\ ~auth.isLoading
    /\ auth.location = Location("/login", "")
    /\ auth.thrown = NoError

\* the fallback message of an operation
Fallback(op) == IF op = "login" THEN "Login failed" ELSE "Signup failed"

\* C26: when login or signup fails, the user and the location stay as they
\* are, isLoading is false again, the failure (an ApiError) is thrown to the
\* caller, and error is the message of the failure's detail when it has a
\* non-empty one and the operation's fallback otherwise, never
\* 'An unexpected error occurred'.
C26_FailedLoginKeepsStateAndReportsMessage ==
    [][\A op \in {"login", "signup"} :
          Finishes(op) /\ auth'.thrown # NoError =>
             /\ auth'.user = auth.user
             /\ auth'.location = auth.location
             /\ ~auth'.isLoading
             /\ auth'.thrown.cls = "ApiError"
             /\ LET m == Property(auth'.thrown.data, "message") IN
                auth'.error = IF Truthy(m) THEN m ELSE Str(Fallback(op))
             /\ auth'.error # Str("An unexpected error occurred")]_vars

\* a login or signup attempt has been rejected with 401 and the server's
\* message: error carries the message, there is no user, the page is /login
C26_Witness ==
    /\ auth.thrown.cls = "ApiError" /\ auth.thrown.status = 401
    /\ auth.error = Str("Invalid credentials")
    /\ auth.user = Null /\ ~auth.isLoading
    /\ auth.pending = {}
    /\ auth.location.pathname = "/login"

\* --------------------------------------------------- properties of the pages
\* the generator page and the analyzer page are displayed to authenticated
\* users only, and the SavePromptModal is never open
SavePromptNeverOpens ==
    /\ \A path \in {"/generator", "/analyzer"} :
          Shown(auth, path) => IsAuthenticated(auth.user)
    /\ ~gen.isSavePromptOpen /\ ~ana.isSavePromptOpen

\* C21: an unauthenticated user can save-prompt: with the auth check
\* finished and no user set, the generator page and the analyzer page are
\* displayed at their routes, and there Save opens the SavePromptModal
\* instead of reporting the item as saved.
C21_UnauthenticatedUserCanSavePrompt ==
    \A path \in {"/generator", "/analyzer"} :
        /\ auth.location.pathname = path
        /\ ~auth.isLoading
        /\ ~IsAuthenticated(auth.user)
        => /\ Shown(auth, path)
           /\ SaveClick(IsAuthenticated(auth.user)) = "prompt"

\* ------------------------------------------- properties of the auth context
\* the auth check, when it ends, leaves isLoading false and error as it was,
\* and user is the value the call returned, or null when it failed
CheckAuthOutcome ==
    [][Finishes("checkAuth") =>
          /\ ~auth'.isLoading
          /\ auth'.error = auth.error
          /\ auth'.user = IF calls[1].pc = "resolved" THEN calls[1].value
                          ELSE Null]_vars

\* C22: the mount-time auth check never surfaces a failure: however
\* GET /auth/me ends, the check ends with isLoading false, error unchanged
\* and user set to the returned user or to null; and since the call always
\* settles, isLoading eventually becomes false after mount and ProtectedRoute
\* eventually leaves its loading state.
C22_CheckAuthAlwaysEndsLoading ==
    /\ CheckAuthOutcome
    /\ <>(~auth.isLoading)
    /\ <>(auth.screen # "skeleton" /\ "checkAuth" \notin auth.pending)

\* C23: handleAnalyze falls back to the sample on every failure: when the
\* request (upload or manual-data POST) has rejected, the handler leaves
\* result the sample result, the selected chart 'bar' and error null; and
\* however the request settles, the handler leaves isAnalyzing false
\* (isAnalyzing is true exactly while the handler is at its await).
C23_AnalyzeFallsBackToSample ==
    /\ [](ana.error = Null /\ (ana.isAnalyzing <=> ana.awaiting))
    /\ [][ana.awaiting /\ ~ana'.awaiting =>
             /\ ~ana'.isAnalyzing
             /\ calls[1].pc = "rejected" =>
                   /\ ana'.result = SampleResult
                   /\ ana'.selectedChart = Str("bar")
                   /\ ana'.error = Null]_vars

\* an upload has rejected with the platform's TypeError, 'line' was the
\* selected chart before, and the page shows the sample with the bar chart
C23_Witness ==
    /\ calls[1].kind = "upload" /\ calls[1].pc = "rejected"
    /\ calls[1].error.cls = "Error"
    /\ ~ana.awaiting /\ ~ana.isAnalyzing
    /\ ana.result = SampleResult /\ ana.selectedChart = Str("bar")
    /\ ana.toast = "Sample Data Loaded"
    /\ ana.uploaded # Null

\* C29: after any sequence of file selections, file removals and manual-data
\* edits, the file AnalyzerPage would upload is the file FileUploader shows
\* (non-null exactly when one is shown), the page never holds both a file
\* and non-empty manual data, and with the file removed in the uploader
\* Analyze has no file to upload.
C29_InputSelectionConsistent ==
    /\ ana.file = ana.selectedFile
    /\ ~(Truthy(ana.file) /\ ana.manualData # "")
    /\ ana.selectedFile = Null => ~Truthy(ana.file)

\* C27: the list of field definitions of GeneratorPage is never empty, after
\* any sequence of addField, removeField and updateField, also when two
\* fields were given the same id by the clock.
C27_FieldListNeverEmpty == Len(gen.fields) >= 1

\* C28: in GeneratorPage at most one handleGenerate is at its await at any
\* time, isGenerating is true exactly while one is, and the dataset
\* displayed is the result of the most recently started generation: no
\* later generation has produced a result that is not the one displayed.
C28_OneGenerationInFlight ==
    /\ Cardinality(gen.awaiting) <= 1
    /\ gen.isGenerating <=> gen.awaiting # {}
    /\ \A n \in GenIds :
          n <= gen.started /\ n \notin gen.awaiting /\ calls[n].pc = "resolved"
             => n <= gen.dataFrom

====
